---- MODULE Spec2Model ----
(***************************************************************************)
(* ScreenCatcher: the ScreenCatcherClient React component                  *)
(* (src/src/components/screen-catcher-client.tsx) and its oldest revision  *)
(* (src/unnamed/part_000), modelled as a state machine.                    *)
(*                                                                         *)
(* React state and refs are the variables.  Every event handler, promise   *)
(* continuation, timer callback and MediaRecorder / MediaStreamTrack event *)
(* is one action.  A handler closes over the values of the render in which *)
(* it was created: the recorder and track callbacks installed by a start   *)
(* therefore read the status that was current when that start was invoked  *)
(* (field s0 of the session), while refs are always read live.             *)
(*                                                                         *)
(* Browser objects: every capture request creates one session slot that    *)
(* stands for the MediaStream it may resolve to and for the MediaRecorder  *)
(* built on that stream.  streamRef and mediaRecorderRef hold slot numbers *)
(* (0 = null).  MediaRecorder.stop() makes the recorder inactive at once   *)
(* and queues one task that fires dataavailable and then stop.             *)
(***************************************************************************)
EXTENDS Integers, Sequences, FiniteSets, TLC

\* ------------------------------------------------------------------ bounds
MaxSessions == 2
MaxOverlap == 3
MaxChunks == 2
MaxTicks == 2
MaxRingChunks == 181
MaxDurationChoice == 60
MaxWindowChoice == 180

\* ------------------------------------------------------- program constants
REGULAR_RECORDING_DURATIONS == {0, 60, 180, 300}
INSTANT_REPLAY_CLIP_DURATIONS == {60, 180, 300}
REPLAY_CHUNK_DURATION_MS == 5000
REPLAY_CHUNK_DURATION_SECONDS == REPLAY_CHUNK_DURATION_MS \div 1000
OLDEST_CHUNK_SECONDS == 1
DefaultReplayWindow == 180
DefaultRegularDuration == 0

\* "current": src/src/components/screen-catcher-client.tsx; "restart":
\* src/unnamed/part_001, which restarts the capture when the replay window is
\* changed; "oldest": src/unnamed/part_000
Revisions == {"current", "restart", "oldest"}
RecordingStatus == {"idle", "permission_pending", "countdown", "recording",
                    "stopped", "error", "replay_buffering", "replay_saving"}
NullCountdown == 0 - 1
NullUrl == <<>>
NullMessage == "null"
NoRestartTimer == [armed |-> FALSE, mic |-> FALSE, old |-> 0]

VARIABLES
  revision,                         \* which revision of the component runs
  apiSupported,                     \* navigator.mediaDevices.getDisplayMedia exists
  status, includeMicAudio, regularRecordingDurationSeconds,
  recordedVideoUrl, errorMessage, countdown,
  enableInstantReplay, instantReplayBufferDuration,
  instantReplayBufferDurationRef,
  mediaRecorderRef, streamRef, recordedChunksRef, replayBufferChunksRef,
  countdownTimerRef, recordingStopTimeoutRef,
  sessions,                         \* streams, recorders, timers and closures
  nextChunk,                        \* identity of the next non-empty chunk
  toasts,                           \* titles of the toasts the last handler showed
  pushWindow,                       \* window used by the latest replay push
  prevWindow,                       \* window before the latest window change
  windowStable,                     \* every replay push so far used one window
  restartTimer,                     \* the restart timeout of the window effect
  savedClip,                        \* the clip exported by the last handler, kept
                                    \* over the chunk delivered right after it
  lastEvent                         \* the handler that ran last, and on which slot

vars == <<revision, apiSupported, status, includeMicAudio,
          regularRecordingDurationSeconds, recordedVideoUrl, errorMessage,
          countdown, enableInstantReplay, instantReplayBufferDuration,
          instantReplayBufferDurationRef, mediaRecorderRef, streamRef,
          recordedChunksRef, replayBufferChunksRef, countdownTimerRef,
          recordingStopTimeoutRef, sessions, nextChunk, toasts, pushWindow,
          prevWindow, windowStable, restartTimer, savedClip, lastEvent>>

Slots == 1..(IF MaxOverlap >= MaxSessions THEN MaxOverlap ELSE MaxSessions)

\* ---------------------------------------------------------- pure helpers
CeilDiv(a, b) == (a + b - 1) \div b

Max(a, b) == IF a >= b THEN a ELSE b

Min(a, b) == IF a <= b THEN a ELSE b

\* Array.prototype.shift applied k times
DropFirst(s, k) == SubSeq(s, k + 1, Len(s))

\* Array.prototype.slice(-n) for n >= 1
SliceLast(s, n) == SubSeq(s, Max(1, Len(s) - n + 1), Len(s))

IsSuffix(s, t) == Len(s) <= Len(t) /\ s = SubSeq(t, Len(t) - Len(s) + 1, Len(t))

UnusedSession ==
  [kind |-> "none", s0 |-> "idle", mic |-> FALSE, dur |-> 0, capWindow |-> 0,
   phase |-> "unused", displayLive |-> FALSE, micLive |-> FALSE,
   micOrigLive |-> FALSE, rec |-> "none", stopQueued |-> FALSE,
   intervalArmed |-> FALSE, ticked |-> 0, timeoutArmed |-> FALSE,
   got |-> <<>>, onstopNull |-> FALSE, cancelled |-> FALSE, expired |-> FALSE,
   restartOf |-> 0]

\* MediaStream.active: some track of the stream has not ended
StreamActive(ss, sid) == sid # 0 /\ (ss[sid].displayLive \/ ss[sid].micLive)

\* the program state as one value, so that handlers compose sequentially
State ==
  [status |-> status, includeMicAudio |-> includeMicAudio,
   regularRecordingDurationSeconds |-> regularRecordingDurationSeconds,
   recordedVideoUrl |-> recordedVideoUrl, errorMessage |-> errorMessage,
   countdown |-> countdown, enableInstantReplay |-> enableInstantReplay,
   instantReplayBufferDuration |-> instantReplayBufferDuration,
   instantReplayBufferDurationRef |-> instantReplayBufferDurationRef,
   mediaRecorderRef |-> mediaRecorderRef, streamRef |-> streamRef,
   recordedChunksRef |-> recordedChunksRef,
   replayBufferChunksRef |-> replayBufferChunksRef,
   countdownTimerRef |-> countdownTimerRef,
   recordingStopTimeoutRef |-> recordingStopTimeoutRef,
   sessions |-> sessions, nextChunk |-> nextChunk, toasts |-> {},
   pushWindow |-> pushWindow, prevWindow |-> prevWindow,
   windowStable |-> windowStable, restartTimer |-> restartTimer,
   savedClip |-> <<>>]

\* toast({title}): the handler shows one more toast
Toast(S, title) == [S EXCEPT !.toasts = @ \cup {title}]

\* ------------------------------------------------- cleanup and stop helpers
\* track.stop() on every track of a stream (display tracks and mic clones)
StopTracks(ss, sid) ==
  [ss EXCEPT ![sid].displayLive = FALSE, ![sid].micLive = FALSE]

cleanupStream(S) ==
  IF S.streamRef # 0
  THEN [S EXCEPT !.sessions = StopTracks(@, S.streamRef), !.streamRef = 0]
  ELSE S

\* clearInterval / clearTimeout of a handle: disarms the timer of the slot
\* that armed it; a null handle clears nothing
ClearInterval(ss, h) ==
  IF h # 0 THEN [ss EXCEPT ![h].intervalArmed = FALSE, ![h].ticked = 0] ELSE ss

ClearTimeout(ss, h) == IF h # 0 THEN [ss EXCEPT ![h].timeoutArmed = FALSE] ELSE ss

cleanupTimers(S) ==
  [S EXCEPT !.sessions = ClearTimeout(ClearInterval(@, S.countdownTimerRef),
                                      S.recordingStopTimeoutRef),
            !.countdownTimerRef = 0,
            !.recordingStopTimeoutRef = 0,
            !.countdown = NullCountdown]

\* mediaRecorderRef.current is set and its state is "recording"
\* (the component never pauses a recorder)
RecorderRecording(S) ==
  S.mediaRecorderRef # 0 /\ S.sessions[S.mediaRecorderRef].rec = "recording"

\* MediaRecorder.stop(): inactive at once, dataavailable + stop queued
RecorderStop(S) ==
  [S EXCEPT !.sessions[S.mediaRecorderRef].rec = "inactive",
            !.sessions[S.mediaRecorderRef].stopQueued = TRUE]

cleanupRecorder(S) ==
  [(IF S.mediaRecorderRef # 0 /\ S.sessions[S.mediaRecorderRef].rec = "recording"
    THEN RecorderStop(S) ELSE S) EXCEPT !.mediaRecorderRef = 0]

\* (mutant) the cleanup of the mount effect without cleanupTimers
EffectCleanup_KeepsTimers(S) ==
  [cleanupRecorder(cleanupStream(S)) EXCEPT !.replayBufferChunksRef = <<>>]

\* the cleanup function of the mount effect
EffectCleanup(S) ==
  [cleanupTimers(cleanupRecorder(cleanupStream(S))) EXCEPT !.replayBufferChunksRef = <<>>]

\* the render that follows a handler.  The mount effect lists recordedVideoUrl
\* among its dependencies, so React runs its cleanup when the handler has
\* changed recordedVideoUrl, and on no other render
Render(S) == IF S.recordedVideoUrl # recordedVideoUrl THEN EffectCleanup(S) ELSE S

\* a handler has run to its end (or to its next await) and the component has
\* rendered: S becomes the program state, ev the event handled last
Commit(S, ev) ==
  LET R == Render(S) IN
  /\ status' = R.status
  /\ includeMicAudio' = R.includeMicAudio
  /\ regularRecordingDurationSeconds' = R.regularRecordingDurationSeconds
  /\ recordedVideoUrl' = R.recordedVideoUrl
  /\ errorMessage' = R.errorMessage
  /\ countdown' = R.countdown
  /\ enableInstantReplay' = R.enableInstantReplay
  /\ instantReplayBufferDuration' = R.instantReplayBufferDuration
  /\ instantReplayBufferDurationRef' = R.instantReplayBufferDurationRef
  /\ mediaRecorderRef' = R.mediaRecorderRef
  /\ streamRef' = R.streamRef
  /\ recordedChunksRef' = R.recordedChunksRef
  /\ replayBufferChunksRef' = R.replayBufferChunksRef
  /\ countdownTimerRef' = R.countdownTimerRef
  /\ recordingStopTimeoutRef' = R.recordingStopTimeoutRef
  /\ sessions' = R.sessions
  /\ nextChunk' = R.nextChunk
  /\ toasts' = R.toasts
  /\ pushWindow' = R.pushWindow
  /\ prevWindow' = R.prevWindow
  /\ windowStable' = R.windowStable
  /\ restartTimer' = R.restartTimer
  /\ savedClip' = R.savedClip
  /\ lastEvent' = ev
  /\ UNCHANGED <<revision, apiSupported>>

handleStopRecording(S) ==
  cleanupTimers(IF RecorderRecording(S) THEN RecorderStop(S) ELSE S)

\* st is the status the useCallback closure was created with
stopInstantReplayBuffering(S, st, showToast) ==
  LET S1 == IF RecorderRecording(S)
            THEN RecorderStop(S)
            ELSE [cleanupStream(S) EXCEPT !.replayBufferChunksRef = <<>>]
      S2 == IF st # "idle" THEN [S1 EXCEPT !.status = "idle"] ELSE S1
  IN IF showToast THEN Toast(S2, "Instant Replay Deactivated") ELSE S2

\* st is the status of the render whose startRecordingSharedLogic installed
\* the function as the video track's onended
handleStreamStopFromBrowser(S, st) ==
  IF st \in {"recording", "countdown"}
  THEN handleStopRecording(S)
  ELSE IF st = "replay_buffering"
  THEN Toast([stopInstantReplayBuffering(S, st, FALSE)
                EXCEPT !.enableInstantReplay = FALSE],
             "Instant Replay Stopped")
  ELSE S


\* --------------------------------------------------------- starting a session
HasFreeSlot == \E i \in Slots : sessions[i].phase = "unused"

FreeSlot == CHOOSE i \in Slots : sessions[i].phase = "unused"
                                  /\ \A j \in Slots : j < i => sessions[j].phase # "unused"

\* startRecordingSharedLogic up to the await of getDisplayMedia; the new slot
\* keeps what the closures of this render captured
SharedLogicBegin(S, forReplay, sid) ==
  [S EXCEPT !.status = "permission_pending",
            !.errorMessage = NullMessage,
            !.recordedVideoUrl = IF forReplay THEN @ ELSE NullUrl,
            !.recordedChunksRef = <<>>,
            !.replayBufferChunksRef = IF forReplay THEN <<>> ELSE @,
            !.pushWindow = IF forReplay THEN 0 ELSE @,
            !.prevWindow = IF forReplay THEN 0 ELSE @,
            !.windowStable = IF forReplay THEN TRUE ELSE @,
            !.sessions[sid] =
               [UnusedSession EXCEPT
                  !.kind = IF forReplay THEN "replay" ELSE "regular",
                  !.s0 = S.status,
                  !.mic = S.includeMicAudio,
                  !.dur = IF forReplay THEN 0 ELSE S.regularRecordingDurationSeconds,
                  !.capWindow = IF forReplay /\ revision = "oldest"
                                THEN S.instantReplayBufferDuration ELSE 0,
                  !.phase = "display_pending"]]

\* (mutant) the unsupported branch sets the status without a message
SharedLogicUnsupported_NoMessage(S) ==
  Toast([S EXCEPT !.status = "error"], "Error")

\* startRecordingSharedLogic when the capture API is missing
SharedLogicUnsupported(S) ==
  Toast([S EXCEPT !.errorMessage = "unsupported", !.status = "error"], "Error")

\* (mutant) the catch block forgets cleanupStream
SharedLogicCatch_NoCleanup(S, sid, msg) ==
  LET forReplay == S.sessions[sid].kind = "replay"
      S1 == Toast([S EXCEPT !.errorMessage = msg, !.status = "error"],
                  IF msg = "denied" THEN "Permission Denied" ELSE "Recording Error")
  IN [S1 EXCEPT !.enableInstantReplay = IF forReplay THEN FALSE ELSE @,
                !.sessions[sid].phase = "failed",
                !.sessions[sid].mic = FALSE,
                !.sessions[sid].dur = 0]

\* the catch block of startRecordingSharedLogic, then the caller's
\* handling of success = false; msg is the class of the message shown:
\* "denied" for NotAllowedError, otherwise "An error occurred: <message>" with
\* the message of the failed capture request or of the failed encoder
SharedLogicCatch(S, sid, msg) ==
  LET forReplay == S.sessions[sid].kind = "replay"
      S1 == cleanupStream(
              Toast([S EXCEPT !.errorMessage = msg, !.status = "error"],
                    IF msg = "denied" THEN "Permission Denied" ELSE "Recording Error"))
  IN [S1 EXCEPT !.enableInstantReplay = IF forReplay THEN FALSE ELSE @,
                !.sessions[sid].phase = "failed",
                !.sessions[sid].mic = FALSE,
                !.sessions[sid].dur = 0]

\* handleStartRecording after a successful startRecordingSharedLogic
RegularAttachAndStart(S, sid) ==
  LET d == S.sessions[sid].dur
      S1 == Toast([S EXCEPT !.sessions[sid].phase = "attached",
                            !.sessions[sid].rec = "recording",
                            !.sessions[sid].mic = FALSE],
                  "Regular Recording Started")
  IN IF d > 0
     THEN [S1 EXCEPT !.status = "countdown",
                     !.countdown = d,
                     !.countdownTimerRef = sid,
                     !.recordingStopTimeoutRef = sid,
                     !.sessions[sid].intervalArmed = TRUE,
                     !.sessions[sid].timeoutArmed = TRUE]
     ELSE [S1 EXCEPT !.status = "recording"]

\* startInstantReplayBuffering after a successful startRecordingSharedLogic
ReplayAttachAndStart(S, sid) ==
  Toast([S EXCEPT !.sessions[sid].phase = "attached",
                  !.sessions[sid].rec = "recording",
                  !.sessions[sid].mic = FALSE,
                  !.status = "replay_buffering"],
        "Instant Replay Active")

\* (mutant) without the fallback to the default codec
SharedLogicFinish_NoFallback(S, sid, codec) ==
  LET S1 == [S EXCEPT !.streamRef = sid]
  IN IF codec # "vp9"
     THEN SharedLogicCatch(S1, sid, "other_encoder")
     ELSE LET S2 == [S1 EXCEPT !.mediaRecorderRef = sid,
                               !.sessions[sid].rec = "inactive"]
          IN IF S.sessions[sid].kind = "replay"
             THEN ReplayAttachAndStart(S2, sid)
             ELSE RegularAttachAndStart(S2, sid)

\* startRecordingSharedLogic from the assignment of streamRef on; codec is
\* the best codec the MediaRecorder constructor accepts
SharedLogicFinish(S, sid, codec) ==
  LET S1 == [S EXCEPT !.streamRef = sid]
  IN IF codec = "none"
     THEN SharedLogicCatch(S1, sid, "other_encoder")
     ELSE LET S2 == [S1 EXCEPT !.mediaRecorderRef = sid,
                               !.sessions[sid].rec = "inactive"]
          IN IF S.sessions[sid].kind = "replay"
             THEN ReplayAttachAndStart(S2, sid)
             ELSE RegularAttachAndStart(S2, sid)

\* (mutant) the microphone is requested whatever the attempt was started with
DisplayResolved_AlwaysMic(S, sid, outcome, codec) ==
  IF outcome = "granted"
  THEN [S EXCEPT !.sessions[sid].displayLive = TRUE,
                 !.sessions[sid].phase = "mic_pending"]
  ELSE SharedLogicCatch(S, sid, IF outcome = "NotAllowedError" THEN "denied"
                                                                 ELSE "other_capture")

\* continuation of getDisplayMedia
DisplayResolved(S, sid, outcome, codec) ==
  IF outcome = "granted"
  THEN LET S1 == [S EXCEPT !.sessions[sid].displayLive = TRUE]
       IN IF S.sessions[sid].mic
          THEN [S1 EXCEPT !.sessions[sid].phase = "mic_pending"]
          ELSE SharedLogicFinish(S1, sid, codec)
  ELSE SharedLogicCatch(S, sid, IF outcome = "NotAllowedError" THEN "denied"
                                                                 ELSE "other_capture")

\* (mutant) the microphone failure reaches the outer catch
MicResolved_Fatal(S, sid, ok, codec) ==
  IF ok
  THEN SharedLogicFinish([S EXCEPT !.sessions[sid].micLive = TRUE,
                                   !.sessions[sid].micOrigLive = TRUE], sid, codec)
  ELSE SharedLogicCatch(S, sid, "other_capture")

\* continuation of getUserMedia
MicResolved(S, sid, ok, codec) ==
  LET S1 == IF ok
            THEN [S EXCEPT !.sessions[sid].micLive = TRUE,
                           !.sessions[sid].micOrigLive = TRUE]
            ELSE Toast(S, "Microphone Error")
  IN SharedLogicFinish(S1, sid, codec)

\* ------------------------------------------------------ recorder callbacks
\* ondataavailable installed by handleStartRecording
RegularOnData(S, sid, size) ==
  IF size > 0
  THEN [S EXCEPT !.recordedChunksRef = Append(@, S.nextChunk),
                 !.sessions[sid].got = Append(@, S.nextChunk),
                 !.nextChunk = @ + 1]
  ELSE S

\* (mutant) the window the push reads lags one change behind
ReplayWindowAtPush_Stale(S, sid) ==
  IF S.prevWindow # 0 THEN S.prevWindow ELSE S.instantReplayBufferDurationRef

\* the window the replay ondataavailable reads: the live ref in the current
\* component, the closure's instantReplayBufferDuration in the oldest revision
ReplayWindowAtPush(S, sid) ==
  IF revision = "oldest" THEN S.sessions[sid].capWindow
                         ELSE S.instantReplayBufferDurationRef

\* (mutant) one chunk per second assumed although chunks last five seconds
MaxChunksFor_Seconds(w) == w

\* maxChunks as the replay ondataavailable computes it
MaxChunksFor(w) ==
  IF revision = "oldest" THEN w
                         ELSE CeilDiv(w, REPLAY_CHUNK_DURATION_SECONDS)

\* (mutant) pop() instead of shift(): the newest chunk is dropped
TrimToCapacity_Pop(chunks, maxChunks) ==
  IF Len(chunks) > maxChunks THEN SubSeq(chunks, 1, maxChunks) ELSE chunks

\* (mutant) if instead of while: at most one chunk is shifted per push
TrimToCapacity_ShiftOnce(chunks, maxChunks) ==
  IF Len(chunks) > maxChunks THEN Tail(chunks) ELSE chunks

\* (mutant) >= instead of >: one chunk too many is shifted
TrimToCapacity_OffByOne(chunks, maxChunks) ==
  IF Len(chunks) >= maxChunks
  THEN DropFirst(chunks, Len(chunks) - maxChunks + 1)
  ELSE chunks

\* while (length > maxChunks) shift()
RECURSIVE TrimToCapacity(_, _)
TrimToCapacity(chunks, maxChunks) ==
  IF Len(chunks) > maxChunks
  THEN TrimToCapacity(Tail(chunks), maxChunks)
  ELSE chunks

\* (mutant) the trim runs on every data event, also on an empty chunk
ReplayOnData_TrimsOnEmpty(S, sid, size) ==
  LET pushed == IF size > 0 THEN Append(S.replayBufferChunksRef, S.nextChunk)
                            ELSE S.replayBufferChunksRef
      w == ReplayWindowAtPush(S, sid)
      maxChunks == MaxChunksFor(w)
  IN [S EXCEPT !.replayBufferChunksRef = TrimToCapacity(pushed, maxChunks),
               !.sessions[sid].got = IF size > 0 THEN Append(@, S.nextChunk) ELSE @,
               !.nextChunk = IF size > 0 THEN @ + 1 ELSE @,
               !.pushWindow = w,
               !.windowStable = @ /\ S.pushWindow \in {0, w}]

\* ondataavailable installed by startInstantReplayBuffering
ReplayOnData(S, sid, size) ==
  IF size > 0
  THEN LET pushed == Append(S.replayBufferChunksRef, S.nextChunk)
           w == ReplayWindowAtPush(S, sid)
           maxChunks == MaxChunksFor(w)
       IN [S EXCEPT !.replayBufferChunksRef = TrimToCapacity(pushed, maxChunks),
                    !.sessions[sid].got = Append(@, S.nextChunk),
                    !.nextChunk = @ + 1,
                    !.pushWindow = w,
                    !.windowStable = @ /\ S.pushWindow \in {0, w}]
  ELSE S

OnData(S, sid, size) ==
  IF S.sessions[sid].kind = "replay" THEN ReplayOnData(S, sid, size)
                                     ELSE RegularOnData(S, sid, size)

\* (mutant) the stop callback forgets to empty recordedChunksRef
RegularOnStop_KeepsChunks(S, sid) ==
  LET st == S.sessions[sid].s0
      empty == Len(S.recordedChunksRef) = 0
  IN IF empty /\ (revision = "oldest" \/ st # "idle")
     THEN cleanupTimers(cleanupStream([S EXCEPT !.status = "idle"]))
     ELSE LET S1 == IF ~empty
                    THEN Toast([S EXCEPT !.recordedVideoUrl = S.recordedChunksRef],
                               "Recording Finished")
                    ELSE S
          IN cleanupTimers(cleanupStream([S1 EXCEPT !.status = "stopped"]))

\* onstop installed by handleStartRecording
RegularOnStop(S, sid) ==
  LET st == S.sessions[sid].s0
      empty == Len(S.recordedChunksRef) = 0
  IN IF empty /\ (revision = "oldest" \/ st # "idle")
     THEN cleanupTimers(cleanupStream([S EXCEPT !.status = "idle"]))
     ELSE LET S1 == IF ~empty
                    THEN Toast([S EXCEPT !.recordedVideoUrl = S.recordedChunksRef],
                               "Recording Finished")
                    ELSE S
          IN [cleanupTimers(cleanupStream([S1 EXCEPT !.status = "stopped"]))
                EXCEPT !.recordedChunksRef = <<>>]

\* onstop installed by startInstantReplayBuffering
ReplayOnStop(S, sid) ==
  LET st == S.sessions[sid].s0
      S1 == cleanupStream(S)
      toIdle == st = "replay_buffering"
                  \/ (revision = "restart" /\ st = "permission_pending")
      S2 == IF toIdle THEN [S1 EXCEPT !.status = "idle"] ELSE S1
  IN IF revision \in {"oldest", "restart"} \/ st = "replay_buffering"
     THEN [S2 EXCEPT !.replayBufferChunksRef = <<>>]
     ELSE S2

\* the stop event of a recorder; the window effect of the restart revision
\* sets onstop to null before it stops the recorder
OnStop(S, sid) ==
  IF S.sessions[sid].onstopNull THEN S
  ELSE IF S.sessions[sid].kind = "replay" THEN ReplayOnStop(S, sid)
                                          ELSE RegularOnStop(S, sid)

\* onerror installed by startInstantReplayBuffering; handleStartRecording
\* installs none
OnError(S, sid) ==
  IF S.sessions[sid].kind = "replay"
  THEN [stopInstantReplayBuffering(
          [S EXCEPT !.errorMessage = "replay", !.status = "error"],
          S.sessions[sid].s0, TRUE)
        EXCEPT !.enableInstantReplay = FALSE]
  ELSE S


\* ------------------------------------------------------- what the UI permits
isRegularRecordingActive ==
  status \in {"recording", "countdown"}
    \/ (status = "permission_pending" /\ ~enableInstantReplay)

AudioSwitchDisabled ==
  \/ isRegularRecordingActive
  \/ status \in {"replay_buffering", "replay_saving"}
  \/ (status = "permission_pending" /\ enableInstantReplay)

DurationSelectDisabled == isRegularRecordingActive \/ enableInstantReplay

StartButtonShown == status \notin {"recording", "countdown"}

StartButtonDisabled ==
  \/ isRegularRecordingActive
  \/ enableInstantReplay
  \/ IF revision = "oldest"
     THEN status = "permission_pending"
     ELSE (status = "permission_pending" /\ ~enableInstantReplay)
            \/ status = "replay_saving"

StopButtonShown == status \in {"recording", "countdown"}

ReplaySwitchDisabled ==
  \/ isRegularRecordingActive
  \/ IF revision = "oldest"
     THEN status = "permission_pending"
     ELSE (status = "permission_pending" /\ ~enableInstantReplay)
            \/ status = "replay_saving"

ReplaySelectShown == enableInstantReplay

ReplaySelectDisabled ==
  IF revision = "oldest"
  THEN status \in {"replay_buffering", "replay_saving", "permission_pending"}
  ELSE status = "replay_saving"
         \/ (status = "permission_pending" /\ enableInstantReplay)

\* the handler that ran last, the slot it ran on, and (for a recorder's stop
\* task) the non-empty chunks that recorder delivered since it was started
Ev(name, sid) == [name |-> name, sid |-> sid, got |-> <<>>, codec |-> ""]

\* the event of a continuation that called the MediaRecorder constructor:
\* codec is what the constructor accepted
EvCodec(name, sid, codec) == [Ev(name, sid) EXCEPT !.codec = codec]

EvStop(name, sid, S) == [Ev(name, sid) EXCEPT !.got = S.sessions[sid].got]

\* the recorder has fired stop: its delivery history ends
Finished(S, sid) == [S EXCEPT !.sessions[sid].got = <<>>]

\* (mutant) the restart is scheduled without releasing the stream
RestartCapture_KeepsStream(S) ==
  IF S.enableInstantReplay /\ S.status = "replay_buffering"
  THEN [S EXCEPT !.replayBufferChunksRef = <<>>,
                 !.restartTimer = [armed |-> TRUE, mic |-> S.includeMicAudio,
                                   old |-> IF S.streamRef # 0 THEN S.streamRef
                                           ELSE S.restartTimer.old]]
  ELSE [S EXCEPT !.restartTimer = NoRestartTimer]

\* the effect on [instantReplayBufferDuration] of the restart revision: the
\* cleanup of its previous run clears the pending restart, then a running
\* replay session is torn down silently and a restart is scheduled; old is
\* the stream the effect released
RestartCapture(S) ==
  LET S0 == [S EXCEPT !.restartTimer = NoRestartTimer]
      rid == S0.mediaRecorderRef
      S1 == IF RecorderRecording(S0)
            THEN RecorderStop([S0 EXCEPT !.sessions[rid].onstopNull = TRUE])
            ELSE S0
      S2 == cleanupStream(S1)
  IN IF S.enableInstantReplay /\ S.status = "replay_buffering"
     THEN [S2 EXCEPT !.replayBufferChunksRef = <<>>,
                     !.restartTimer = [armed |-> TRUE,
                                       mic |-> S.includeMicAudio,
                                       old |-> IF S.streamRef # 0 THEN S.streamRef
                                               ELSE S.restartTimer.old]]
     ELSE S0

\* (mutant) the current component restarts the capture on a window change too
RestartEffect_EveryRevision(S) == RestartCapture(S)

\* what a change of instantReplayBufferDuration does beside the ref update:
\* nothing in the current component and in part_000, the restart in part_001
RestartEffect(S) ==
  IF revision # "restart" THEN S ELSE RestartCapture(S)

\* the restart timeout: startInstantReplayBuffering of the render in which the
\* window was changed, whose status was replay_buffering
RestartedBuffering(S, sid) ==
  LET S1 == SharedLogicBegin([S EXCEPT !.restartTimer = NoRestartTimer], TRUE, sid)
  IN [S1 EXCEPT !.sessions[sid].s0 = "replay_buffering",
                !.sessions[sid].mic = S.restartTimer.mic,
                !.sessions[sid].restartOf = S.restartTimer.old]

\* the replay starts that are awaiting a permission when the switch is turned
\* off: the flag records that the user cancelled them
MarkCancelled(S) ==
  [S EXCEPT !.sessions =
     [i \in Slots |->
        IF S.sessions[i].kind = "replay"
             /\ S.sessions[i].phase \in {"display_pending", "mic_pending"}
        THEN [S.sessions[i] EXCEPT !.cancelled = TRUE]
        ELSE S.sessions[i]]]

\* (mutant) the save takes the chunks out of the buffer
handleSaveLastClip_Drains(S) ==
  IF Len(S.replayBufferChunksRef) = 0 THEN Toast(S, "Buffer Empty")
  ELSE Toast([S EXCEPT !.savedClip = S.replayBufferChunksRef,
                       !.replayBufferChunksRef = <<>>,
                       !.status = "replay_buffering"],
             "Replay Saved!")

\* (mutant) the save exports the whole buffer, whatever the window
handleSaveLastClip_WholeBuffer(S) ==
  IF Len(S.replayBufferChunksRef) = 0 THEN Toast(S, "Buffer Empty")
  ELSE Toast([S EXCEPT !.savedClip = S.replayBufferChunksRef,
                       !.status = "replay_buffering"],
             "Replay Saved!")

\* handleSaveLastClip.  The exported Blob is a copy of the chunk list made
\* at the call (slice, spread or the Blob constructor).
handleSaveLastClip(S) ==
  LET rid == S.mediaRecorderRef
      buf == S.replayBufferChunksRef
      numberOfChunksToSave ==
        Max(1, CeilDiv(S.instantReplayBufferDurationRef, REPLAY_CHUNK_DURATION_SECONDS))
      active == StreamActive(S.sessions, S.streamRef)
  IN IF Len(buf) = 0 THEN Toast(S, "Buffer Empty")
     ELSE IF revision = "oldest"
     THEN Toast([S EXCEPT !.savedClip = buf, !.status = "replay_buffering"],
                "Replay Saved!")
     ELSE IF revision = "restart"
     THEN Toast([S EXCEPT !.savedClip = buf], "Replay Saved!")
     ELSE LET S1 == Toast([S EXCEPT !.savedClip = SliceLast(buf, numberOfChunksToSave)],
                          "Replay Saved!")
          IN IF ~S.enableInstantReplay
             THEN stopInstantReplayBuffering(
                    [S1 EXCEPT !.status = "idle", !.replayBufferChunksRef = <<>>],
                    S.status, FALSE)
             ELSE IF active /\ rid # 0 /\ S.sessions[rid].rec = "inactive"
             THEN [S1 EXCEPT !.replayBufferChunksRef = <<>>,
                             !.sessions[rid].rec = "recording",
                             !.status = "replay_buffering"]
             ELSE IF active
             THEN [S1 EXCEPT !.status = "replay_buffering"]
             ELSE Toast(stopInstantReplayBuffering(
                          [S1 EXCEPT !.enableInstantReplay = FALSE, !.status = "idle"],
                          S.status, FALSE),
                        "Instant Replay Deactivated")

\* ------------------------------------------------------------ user actions
SetIncludeMicAudio ==
  /\ ~AudioSwitchDisabled
  /\ Commit([State EXCEPT !.includeMicAudio = ~includeMicAudio], Ev("mic_switch", 0))

SetRegularDuration(d) ==
  /\ ~DurationSelectDisabled
  /\ d # regularRecordingDurationSeconds
  /\ Commit([State EXCEPT !.regularRecordingDurationSeconds = d], Ev("duration_select", 0))

\* the replay-duration Select, and the effect that copies the state to the ref
SetReplayWindow(w) ==
  /\ ReplaySelectShown /\ ~ReplaySelectDisabled
  /\ w # instantReplayBufferDuration
  /\ Commit(RestartEffect([State EXCEPT !.instantReplayBufferDuration = w,
                                        !.instantReplayBufferDurationRef = w,
                                        !.prevWindow = instantReplayBufferDuration]),
            Ev("window_select", 0))

\* click on Start Recording: handleStartRecording up to its first await
StartRecordingClick ==
  /\ StartButtonShown /\ ~StartButtonDisabled
  /\ IF enableInstantReplay
     THEN Commit(Toast(State, "Action disabled"), Ev("start_click", 0))
     ELSE IF ~apiSupported
     THEN Commit(SharedLogicUnsupported(State), Ev("start_click", 0))
     ELSE /\ HasFreeSlot
          /\ Commit(SharedLogicBegin(State, FALSE, FreeSlot), Ev("start_click", FreeSlot))

\* the Instant Replay switch turned on: handleToggleInstantReplay(true) and
\* startInstantReplayBuffering up to its first await
ReplayToggleOn ==
  /\ ~ReplaySwitchDisabled /\ ~enableInstantReplay
  /\ IF status \in {"recording", "countdown"}
     THEN Commit(Toast([State EXCEPT !.enableInstantReplay = FALSE], "Action disabled"),
                 Ev("toggle_on", 0))
     ELSE IF ~apiSupported
     THEN Commit([SharedLogicUnsupported(State) EXCEPT !.enableInstantReplay = FALSE],
                 Ev("toggle_on", 0))
     ELSE /\ HasFreeSlot
          /\ Commit(SharedLogicBegin([State EXCEPT !.enableInstantReplay = TRUE],
                                     TRUE, FreeSlot),
                    Ev("toggle_on", FreeSlot))

\* the Instant Replay switch turned off: handleToggleInstantReplay(false)
ReplayToggleOff ==
  /\ ~ReplaySwitchDisabled /\ enableInstantReplay
  /\ Commit(stopInstantReplayBuffering(
              MarkCancelled([State EXCEPT !.enableInstantReplay = FALSE]),
              status, TRUE),
            Ev("toggle_off", 0))

\* click on Stop Recording
StopRecordingClick ==
  /\ StopButtonShown
  /\ Commit(handleStopRecording(State), Ev("stop_click", 0))

\* click on Save Last Clip.  The button's disabled flag is computed from the
\* buffer length of the last render, so an empty buffer can be clicked.
SaveLastClip ==
  /\ enableInstantReplay /\ status = "replay_buffering"
  /\ Commit(handleSaveLastClip(State),
            Ev(IF Len(replayBufferChunksRef) = 0 THEN "save_empty" ELSE "save", 0))

\* the restart timeout of the window effect fires (restart revision)
RestartTimerFires ==
  /\ restartTimer.armed
  /\ HasFreeSlot
  /\ Commit(RestartedBuffering(State, FreeSlot), Ev("restart_timer", FreeSlot))

\* -------------------------------------------------- promise continuations
GetDisplayMediaSettles(sid, outcome, codec) ==
  /\ sessions[sid].phase = "display_pending"
  /\ Commit(DisplayResolved(State, sid, outcome, codec),
            EvCodec("display_" \o outcome, sid,
                    IF outcome = "granted" /\ ~sessions[sid].mic THEN codec ELSE ""))

GetUserMediaSettles(sid, ok, codec) ==
  /\ sessions[sid].phase = "mic_pending"
  /\ Commit(MicResolved(State, sid, ok, codec),
            EvCodec(IF ok THEN "mic_granted" ELSE "mic_failed", sid, codec))

\* ------------------------------------------------ recorder and track events
\* a dataavailable event while the recorder records.  Only a recorder started
\* with a timeslice delivers chunks while it records: startInstantReplayBuffering
\* calls start(REPLAY_CHUNK_DURATION_MS), handleStartRecording calls start()
\* and receives the whole recording as one chunk from the task that stops it
DataAvailable(sid, size) ==
  /\ sessions[sid].phase = "attached" /\ sessions[sid].rec = "recording"
  /\ sessions[sid].kind = "replay"
  /\ Commit([OnData(State, sid, size) EXCEPT
               !.savedClip = IF lastEvent.name = "save" THEN savedClip ELSE <<>>],
            Ev(IF size > 0 THEN "data" ELSE "data_empty", sid))

\* the task queued by MediaRecorder.stop(): dataavailable, then stop
RecorderStopTask(sid, size) ==
  /\ sessions[sid].stopQueued
  /\ LET S1 == [State EXCEPT !.sessions[sid].stopQueued = FALSE]
         S2 == OnStop(OnData(S1, sid, size), sid)
     IN Commit(Finished(S2, sid), EvStop("onstop", sid, S2))

\* every track of the recorded stream has ended: the recorder inactivates
\* itself and fires dataavailable, then stop
RecorderStreamEnded(sid, size) ==
  /\ sessions[sid].phase = "attached" /\ sessions[sid].rec = "recording"
  /\ ~StreamActive(sessions, sid)
  /\ LET S1 == [State EXCEPT !.sessions[sid].rec = "inactive"]
         S2 == OnStop(OnData(S1, sid, size), sid)
     IN Commit(Finished(S2, sid), EvStop("onstop_ended", sid, S2))

\* the encoder fails: the recorder inactivates itself and fires error,
\* dataavailable, stop
RecorderError(sid, size) ==
  /\ sessions[sid].phase = "attached" /\ sessions[sid].rec = "recording"
  /\ LET S1 == [State EXCEPT !.sessions[sid].rec = "inactive"]
         S2 == OnStop(OnData(OnError(S1, sid), sid, size), sid)
     IN Commit(Finished(S2, sid), EvStop("onerror", sid, S2))

\* the host ends screen sharing: the display tracks end and the video
\* track's ended event fires (onended is assigned together with streamRef)
TrackEnded(sid) ==
  /\ sessions[sid].displayLive
  /\ LET S1 == [State EXCEPT !.sessions[sid].displayLive = FALSE]
     IN IF sessions[sid].phase = "attached"
        THEN Commit(handleStreamStopFromBrowser(S1, sessions[sid].s0), Ev("ended", sid))
        ELSE Commit(S1, Ev("ended_unobserved", sid))

\* ------------------------------------------------------------------ timers
CountdownTick(sid) ==
  /\ sessions[sid].intervalArmed
  /\ Commit([State EXCEPT !.countdown = IF @ # NullCountdown /\ @ > 0 THEN @ - 1 ELSE 0,
                          !.sessions[sid].ticked = @ + 1],
            Ev("tick", sid))

StopTimeoutFires(sid) ==
  /\ sessions[sid].timeoutArmed
  /\ LET S1 == [State EXCEPT !.sessions[sid].timeoutArmed = FALSE,
                             !.sessions[sid].expired = TRUE]
     IN Commit(IF RecorderRecording(S1) THEN RecorderStop(S1) ELSE S1, Ev("timeout", sid))

\* ----------------------------------------------------------- specification
InitCommon ==
  /\ status = "idle"
  /\ includeMicAudio = FALSE
  /\ regularRecordingDurationSeconds = DefaultRegularDuration
  /\ recordedVideoUrl = NullUrl
  /\ errorMessage = NullMessage
  /\ countdown = NullCountdown
  /\ enableInstantReplay = FALSE
  /\ instantReplayBufferDuration = DefaultReplayWindow
  /\ instantReplayBufferDurationRef = DefaultReplayWindow
  /\ mediaRecorderRef = 0
  /\ streamRef = 0
  /\ recordedChunksRef = <<>>
  /\ replayBufferChunksRef = <<>>
  /\ countdownTimerRef = 0
  /\ recordingStopTimeoutRef = 0
  /\ sessions = [i \in Slots |-> UnusedSession]
  /\ nextChunk = 1
  /\ toasts = {}
  /\ pushWindow = 0
  /\ prevWindow = 0
  /\ windowStable = TRUE
  /\ restartTimer = NoRestartTimer
  /\ savedClip = <<>>
  /\ lastEvent = Ev("init", 0)

Init ==
  /\ revision \in Revisions
  /\ apiSupported \in BOOLEAN
  /\ InitCommon

Outcomes == {"granted", "NotAllowedError", "other"}

Codecs == {"vp9", "default", "none"}

Sizes == {0, 1}

\* capture requests issued so far
SessionsUsed == Cardinality({i \in Slots : sessions[i].phase # "unused"})

Next ==
  \/ SetIncludeMicAudio
  \/ \E d \in REGULAR_RECORDING_DURATIONS : d <= MaxDurationChoice /\ SetRegularDuration(d)
  \/ \E w \in INSTANT_REPLAY_CLIP_DURATIONS : w <= MaxWindowChoice /\ SetReplayWindow(w)
  \/ SessionsUsed < MaxSessions /\ StartRecordingClick
  \/ SessionsUsed < MaxSessions /\ ReplayToggleOn
  \/ ReplayToggleOff
  \/ StopRecordingClick
  \/ SaveLastClip
  \/ SessionsUsed < MaxSessions /\ RestartTimerFires
  \/ \E sid \in Slots, o \in Outcomes, c \in Codecs : GetDisplayMediaSettles(sid, o, c)
  \/ \E sid \in Slots, ok \in BOOLEAN, c \in Codecs : GetUserMediaSettles(sid, ok, c)
  \/ \E sid \in Slots, z \in Sizes :
        (z > 0 => nextChunk <= MaxChunks) /\ DataAvailable(sid, z)
  \/ \E sid \in Slots, z \in Sizes :
        (z > 0 => nextChunk <= MaxChunks) /\ RecorderStopTask(sid, z)
  \/ \E sid \in Slots, z \in Sizes :
        (z > 0 => nextChunk <= MaxChunks) /\ RecorderStreamEnded(sid, z)
  \/ \E sid \in Slots, z \in Sizes :
        (z > 0 => nextChunk <= MaxChunks) /\ RecorderError(sid, z)
  \/ \E sid \in Slots : TrackEnded(sid)
  \/ \E sid \in Slots : sessions[sid].ticked < MaxTicks /\ CountdownTick(sid)
  \/ \E sid \in Slots : StopTimeoutFires(sid)

Spec == Init /\ [][Next]_vars

\* ---- the replay ring buffer of one running replay session: the state right
\* ---- after the Instant Replay switch was turned on and capture was granted
InitRing ==
  /\ revision \in {"current", "oldest"}
  /\ apiSupported = TRUE
  /\ status = "replay_buffering"
  /\ includeMicAudio = FALSE
  /\ regularRecordingDurationSeconds = DefaultRegularDuration
  /\ recordedVideoUrl = NullUrl
  /\ errorMessage = NullMessage
  /\ countdown = NullCountdown
  /\ enableInstantReplay = TRUE
  /\ instantReplayBufferDuration = DefaultReplayWindow
  /\ instantReplayBufferDurationRef = DefaultReplayWindow
  /\ mediaRecorderRef = 1
  /\ streamRef = 1
  /\ recordedChunksRef = <<>>
  /\ replayBufferChunksRef = <<>>
  /\ countdownTimerRef = 0
  /\ recordingStopTimeoutRef = 0
  /\ sessions = [i \in Slots |->
                   IF i = 1
                   THEN [UnusedSession EXCEPT
                           !.kind = "replay", !.phase = "attached",
                           !.capWindow = IF revision = "oldest"
                                         THEN DefaultReplayWindow ELSE 0,
                           !.displayLive = TRUE, !.rec = "recording"]
                   ELSE UnusedSession]
  /\ nextChunk = 1
  /\ toasts = {"Instant Replay Active"}
  /\ pushWindow = 0
  /\ prevWindow = 0
  /\ windowStable = TRUE
  /\ restartTimer = NoRestartTimer
  /\ savedClip = <<>>
  /\ lastEvent = Ev("display_granted", 1)

NextRing ==
  \/ \E w \in INSTANT_REPLAY_CLIP_DURATIONS : SetReplayWindow(w)
  \/ \E z \in Sizes : (z > 0 => nextChunk <= MaxRingChunks) /\ DataAvailable(1, z)
  \/ SaveLastClip

SpecRing == InitRing /\ [][NextRing]_vars

\* ---- overlapping sessions: no microphone, no timers, no encoder faults, but
\* ---- one more capture request than Spec allows
InitOverlap ==
  /\ revision = "current"
  /\ apiSupported = TRUE
  /\ InitCommon

NextOverlap ==
  \/ SessionsUsed < MaxOverlap /\ StartRecordingClick
  \/ SessionsUsed < MaxOverlap /\ ReplayToggleOn
  \/ ReplayToggleOff
  \/ StopRecordingClick
  \/ \E sid \in Slots, o \in Outcomes, c \in Codecs : GetDisplayMediaSettles(sid, o, c)
  \/ \E sid \in Slots, z \in Sizes :
        (z > 0 => nextChunk <= MaxChunks) /\ DataAvailable(sid, z)
  \/ \E sid \in Slots, z \in Sizes :
        (z > 0 => nextChunk <= MaxChunks) /\ RecorderStopTask(sid, z)
  \/ \E sid \in Slots, z \in Sizes :
        (z > 0 => nextChunk <= MaxChunks) /\ RecorderStreamEnded(sid, z)
  \/ \E sid \in Slots : TrackEnded(sid)

SpecOverlap == InitOverlap /\ [][NextOverlap]_vars

\* ---- starts, failures and restarts: every way a capture request is issued
\* ---- and every way a session fails, with one more capture request than Spec
\* ---- allows; no microphone, no recording timers, and recorders that
\* ---- deliver no data
NextStarts ==
  \/ SessionsUsed < MaxOverlap /\ StartRecordingClick
  \/ SessionsUsed < MaxOverlap /\ ReplayToggleOn
  \/ ReplayToggleOff
  \/ StopRecordingClick
  \/ \E w \in INSTANT_REPLAY_CLIP_DURATIONS : w <= MaxWindowChoice /\ SetReplayWindow(w)
  \/ SessionsUsed < MaxOverlap /\ RestartTimerFires
  \/ \E sid \in Slots, o \in Outcomes, c \in Codecs : GetDisplayMediaSettles(sid, o, c)
  \/ \E sid \in Slots : RecorderStopTask(sid, 0)
  \/ \E sid \in Slots : RecorderStreamEnded(sid, 0)
  \/ \E sid \in Slots : RecorderError(sid, 0)
  \/ \E sid \in Slots : TrackEnded(sid)

SpecStarts == Init /\ [][NextStarts]_vars

\* ---- the settings: every option of the two duration selects, the switches,
\* ---- and the replay starts that make the replay select appear
NextSettings ==
  \/ SetIncludeMicAudio
  \/ \E d \in REGULAR_RECORDING_DURATIONS : SetRegularDuration(d)
  \/ \E w \in INSTANT_REPLAY_CLIP_DURATIONS : SetReplayWindow(w)
  \/ SessionsUsed < MaxSessions /\ ReplayToggleOn
  \/ ReplayToggleOff
  \/ SessionsUsed < MaxSessions /\ RestartTimerFires
  \/ \E sid \in Slots, o \in Outcomes, c \in Codecs : GetDisplayMediaSettles(sid, o, c)

SpecSettings == Init /\ [][NextSettings]_vars

\* the ring specification starts in a state the component reaches
RingStartReached ==
  /\ status = "replay_buffering" /\ enableInstantReplay
  /\ mediaRecorderRef = 1 /\ streamRef = 1
  /\ sessions[1].kind = "replay" /\ sessions[1].rec = "recording"
  /\ sessions[1].s0 = "idle" /\ sessions[1].displayLive
  /\ instantReplayBufferDuration = DefaultReplayWindow
  /\ replayBufferChunksRef = <<>> /\ nextChunk = 1
  /\ lastEvent = Ev("display_granted", 1)

\* ======================================================= replay ring buffer
\* seconds of capture one replay chunk stands for
ChunkSeconds == IF revision = "oldest" THEN OLDEST_CHUNK_SECONDS
                                       ELSE REPLAY_CHUNK_DURATION_SECONDS

\* a non-empty chunk was just delivered to a replay recorder's ondataavailable
AfterReplayPush ==
  lastEvent.name = "data" /\ sessions[lastEvent.sid].kind = "replay"

\* the last k elements of a sequence
LastK(seq, k) == [i \in 1..k |-> seq[Len(seq) - k + i]]

\* C1: right after every delivery of a non-empty chunk to the replay handler
\* the buffer holds at most ceil(W / chunk_seconds) chunks, W being the window
\* in force at that push, so it represents at most W plus one chunk duration.
C1_BoundAfterPush ==
  AfterReplayPush =>
    /\ pushWindow = instantReplayBufferDuration
    /\ Len(replayBufferChunksRef) <= CeilDiv(instantReplayBufferDuration, ChunkSeconds)
    /\ Len(replayBufferChunksRef) * ChunkSeconds
         <= instantReplayBufferDuration + ChunkSeconds

\* C1 witness: a push that found the buffer full and evicted (current component)
C1_Witness ==
  /\ AfterReplayPush /\ revision = "current"
  /\ Len(replayBufferChunksRef) = CeilDiv(instantReplayBufferDuration, 5)
  /\ Len(sessions[1].got) > Len(replayBufferChunksRef)

\* C2: with one window W used by all n pushes of the session, the buffer is
\* exactly the last min(n, ceil(W/c)) chunks pushed, in push order; with
\* W = 60 and c = 5, 20 pushes leave chunks 9..20.
C2_LastChunksKept ==
  (windowStable /\ pushWindow # 0 /\ sessions[1].rec = "recording") =>
    LET got == sessions[1].got
        n == Len(got)
        cap == CeilDiv(pushWindow, ChunkSeconds)
    IN /\ replayBufferChunksRef = LastK(got, Min(n, cap))
       /\ (revision = "current" /\ pushWindow = 60 /\ n = 20)
            => replayBufferChunksRef = <<9, 10, 11, 12, 13, 14, 15, 16, 17, 18, 19, 20>>

\* C2 witness: window 60 s throughout, 20 chunks pushed
C2_Witness ==
  /\ revision = "current" /\ windowStable /\ pushWindow = 60
  /\ Len(sessions[1].got) = 20
  /\ Len(replayBufferChunksRef) = 12
  /\ replayBufferChunksRef[1] = 9 /\ replayBufferChunksRef[12] = 20

\* C3: the buffer is always a contiguous suffix, in delivery order, of the
\* non-empty chunks delivered in the session, also across window changes.
C3_FifoSuffix ==
  LET got == sessions[1].got
      buf == replayBufferChunksRef
  IN /\ Len(buf) <= Len(got)
     /\ \A i \in 1..Len(buf) : buf[i] = got[Len(got) - Len(buf) + i]
     /\ \A i \in 1..Len(buf), j \in 1..Len(buf) : i < j => buf[i] < buf[j]

\* C3 witness: chunks were evicted after the window had been changed
C3_Witness ==
  /\ prevWindow # 0 /\ ~windowStable
  /\ Len(replayBufferChunksRef) > 0
  /\ Len(replayBufferChunksRef) < Len(sessions[1].got)
  /\ replayBufferChunksRef[1] > 1

\* C4: after the window was changed from 60 s to 180 s while buffering, every
\* push uses the new window and leaves at most ceil(180/5) = 36 chunks.
C4_RaisedWindow ==
  (AfterReplayPush /\ status = "replay_buffering"
     /\ prevWindow = 60 /\ instantReplayBufferDuration = 180) =>
    /\ pushWindow = 180
    /\ Len(replayBufferChunksRef) <= 36
    /\ Len(replayBufferChunksRef) * REPLAY_CHUNK_DURATION_SECONDS
         <= 180 + REPLAY_CHUNK_DURATION_SECONDS

\* C4 witness: 60 s -> 180 s, then pushes until the 180 s capacity evicts
C4_Witness ==
  /\ AfterReplayPush /\ status = "replay_buffering"
  /\ prevWindow = 60 /\ instantReplayBufferDuration = 180
  /\ Len(replayBufferChunksRef) = 36
  /\ Len(sessions[1].got) > 36

\* C5 as claimed: in every state while buffering, buffer length x chunk
\* duration <= currently configured window + one chunk duration.
C5_BoundAtAllTimes ==
  status = "replay_buffering" =>
    Len(replayBufferChunksRef) * ChunkSeconds
      <= instantReplayBufferDuration + ChunkSeconds

\* C5 amended: in every state while buffering, buffer length x chunk duration
\* <= W + one chunk duration, W being the window configured at the latest
\* non-empty chunk delivery; the buffer is empty before the first delivery.
C5_BoundSinceLastPush ==
  status = "replay_buffering" =>
    IF pushWindow = 0
    THEN replayBufferChunksRef = <<>>
    ELSE Len(replayBufferChunksRef) * ChunkSeconds <= pushWindow + ChunkSeconds

\* C5 witness: the window was lowered and no chunk has been delivered since,
\* the buffer still holding more than the new window allows
C5_Witness ==
  /\ status = "replay_buffering" /\ lastEvent.name = "window_select"
  /\ instantReplayBufferDuration < pushWindow
  /\ Len(replayBufferChunksRef) * ChunkSeconds
       > instantReplayBufferDuration + ChunkSeconds

\* ============================================== regular recording and starts
ActiveStatus == {"recording", "countdown", "replay_buffering"}

\* a recorder's stop callback has just run
AfterStop == lastEvent.name \in {"onstop", "onstop_ended", "onerror"}

C7_EmptyStopsAsStopped ==
  (AfterStop /\ revision = "current" /\ sessions[lastEvent.sid].kind = "regular"
     /\ lastEvent.got = <<>>) =>
    /\ status = "stopped"
    /\ recordedVideoUrl = NullUrl

\* C8: a rejected screen-capture request ends the start attempt with status
\* error, no stream reference held, no live track and no recorder for the
\* attempt, and enableInstantReplay false after a replay start.
C8_DeniedStart ==
  lastEvent.name = "display_NotAllowedError" =>
    LET sid == lastEvent.sid
    IN /\ status = "error"
       /\ errorMessage = "denied"
       /\ streamRef = 0
       /\ ~StreamActive(sessions, sid)
       /\ sessions[sid].rec = "none"
       /\ mediaRecorderRef # sid
       /\ sessions[sid].kind = "replay" => ~enableInstantReplay

\* C8 witness: a replay start denied while an earlier stream was referenced
C8_Witness ==
  /\ lastEvent.name = "display_NotAllowedError"
  /\ sessions[lastEvent.sid].kind = "replay"
  /\ status = "error" /\ ~enableInstantReplay
  /\ \E i \in Slots : i # lastEvent.sid /\ sessions[i].phase = "attached"

\* C9: when screen capture is granted and the microphone request fails, a
\* warning is shown, the session runs on the display stream only and reaches
\* an active status; status error can then only come from the encoder.
C9_MicFailureNonFatal ==
  lastEvent.name = "mic_failed" =>
    LET sid == lastEvent.sid
    IN /\ "Microphone Error" \in toasts
       /\ ~sessions[sid].micLive /\ ~sessions[sid].micOrigLive
       /\ \/ /\ status \in ActiveStatus
             /\ streamRef = sid /\ mediaRecorderRef = sid
             /\ sessions[sid].rec = "recording"
          \/ /\ status = "error" /\ errorMessage = "other_encoder"

\* C9 witness: microphone refused, the recording runs
C9_Witness ==
  /\ lastEvent.name = "mic_failed"
  /\ status = "recording"
  /\ sessions[lastEvent.sid].displayLive
  /\ sessions[lastEvent.sid].rec = "recording"

\* C10: when the video track's ended event has been handled during a regular
\* recording (status recording or countdown), the recording is being
\* finalized: its recorder has been stopped, or at least every track of its
\* stream has ended so that the recorder stops by itself.
C10_HostRevokeStops ==
  (lastEvent.name = "ended" /\ sessions[lastEvent.sid].kind = "regular"
     /\ status \in {"recording", "countdown"}) =>
    \/ sessions[lastEvent.sid].rec = "inactive"
    \/ ~StreamActive(sessions, lastEvent.sid)


\* the host has ended screen sharing of the replay session whose recorder the
\* component holds, and that recorder's stop callback has just run
AfterHostEndedReplay ==
  /\ lastEvent.name = "onstop_ended"
  /\ sessions[lastEvent.sid].kind = "replay"
  /\ mediaRecorderRef = lastEvent.sid
  /\ ~sessions[lastEvent.sid].displayLive

\* C11: when the host has ended screen sharing of the buffering replay session
\* and the recorder's stop callback has run, status is not left at
\* replay_buffering: the component is idle with Instant Replay switched off,
\* no stream reference and an empty replay buffer.
C11_HostRevokeEndsReplay ==
  AfterHostEndedReplay =>
    /\ status = "idle"
    /\ ~enableInstantReplay
    /\ streamRef = 0
    /\ replayBufferChunksRef = <<>>


\* C12: when the capture request of a replay start that the user cancelled
\* (Instant Replay switched off while the request was pending) is granted, the
\* resolved stream is released and ignored: no track of it is live, no
\* recorder was created for it and status is not replay_buffering.
C12_CancelledStartIgnored ==
  (lastEvent.name = "display_granted" /\ sessions[lastEvent.sid].cancelled) =>
    /\ ~StreamActive(sessions, lastEvent.sid)
    /\ sessions[lastEvent.sid].rec = "none"
    /\ status # "replay_buffering"


\* the acquired capture streams that still have a live track
LiveStreams == {i \in Slots : StreamActive(sessions, i)}

\* the capture requests that await a permission
PendingRequests == {i \in Slots : sessions[i].phase \in {"display_pending", "mic_pending"}}

\* C13: in every reachable state at most one acquired capture stream has live
\* tracks and at most one capture request is pending.
C13_OneLiveStream ==
  /\ Cardinality(LiveStreams) <= 1
  /\ Cardinality(PendingRequests) <= 1


\* a start attempt has just failed
AfterFailedStart ==
  lastEvent.name \in {"display_NotAllowedError", "display_other"}
    \/ (lastEvent.name \in {"display_granted", "mic_granted", "mic_failed"}
          /\ sessions[lastEvent.sid].phase = "failed")

\* C14: when a session has ended (its stop callback has run, or its start has
\* failed) and the component is at rest (status idle, stopped or error and no
\* start pending), every track of the session's stream has been stopped, the
\* stream reference is null and the session's recorder is not recording.
C14_ReleasedOnEveryExit ==
  ((AfterStop \/ AfterFailedStart)
     /\ status \in {"idle", "stopped", "error"} /\ PendingRequests = {}) =>
    /\ ~StreamActive(sessions, lastEvent.sid)
    /\ streamRef = 0
    /\ sessions[lastEvent.sid].rec # "recording"


\* the stop timeout of a timed regular recording has just fired while that
\* recording had not been stopped
AfterExpiry == lastEvent.name = "timeout"

\* the stop callback of a timed regular recording has just run with at least
\* one chunk delivered, the stop timeout having fired before
AfterExpiredStop ==
  /\ lastEvent.name = "onstop"
  /\ sessions[lastEvent.sid].kind = "regular"
  /\ sessions[lastEvent.sid].dur > 0
  /\ sessions[lastEvent.sid].expired
  /\ Len(lastEvent.got) >= 1

\* C15: at expiry of the duration of a timed regular recording its recorder
\* is stopped, and when the stop callback has run the end state is that of a
\* manual stop: status stopped, the artifact made of the delivered chunks,
\* the stream released, both timers cleared and countdown null.
C15_ExpiryStops ==
  /\ AfterExpiry => sessions[lastEvent.sid].rec = "inactive"
  /\ AfterExpiredStop =>
       /\ status = "stopped"
       /\ recordedVideoUrl = lastEvent.got
       /\ streamRef = 0 /\ ~StreamActive(sessions, lastEvent.sid)
       /\ countdownTimerRef = 0 /\ recordingStopTimeoutRef = 0
       /\ ~sessions[lastEvent.sid].intervalArmed
       /\ ~sessions[lastEvent.sid].timeoutArmed
       /\ countdown = NullCountdown


\* the recorder of the replay session the component holds has raised an
\* error; its error handler and its stop callback have run
AfterReplayError ==
  /\ lastEvent.name = "onerror"
  /\ sessions[lastEvent.sid].kind = "replay"
  /\ mediaRecorderRef = lastEvent.sid

\* C16: after an encoder error during replay buffering, once the error
\* handler and the stop callback have run, status is error with an error
\* message, Instant Replay is switched off and the stream is released,
\* whatever the status was when the replay session was started.
C16_ReplayErrorEndsInError ==
  AfterReplayError =>
    /\ status = "error"
    /\ errorMessage # NullMessage
    /\ ~enableInstantReplay
    /\ streamRef = 0


\* C17: after an encoder error during a regular recording, once the
\* recorder's handlers have run, status is error and an error message is set.
C17_RegularErrorEndsInError ==
  (lastEvent.name = "onerror" /\ sessions[lastEvent.sid].kind = "regular") =>
    /\ status = "error"
    /\ errorMessage # NullMessage


\* the three kinds of message startRecordingSharedLogic sets: the fixed text
\* for a missing API, the fixed text for NotAllowedError, and "An error
\* occurred: ..." for every other exception
MessageClass(m) == IF m \in {"other_capture", "other_encoder"} THEN "other" ELSE m

\* C18: every failed start leaves status error with a message whose class is
\* given by the failure (capture API absent, permission denied, any other
\* failure), and in every reachable state status error comes with a message.
C18_FailedStartHasMessage ==
  /\ status = "error" => errorMessage # NullMessage
  /\ (lastEvent.name \in {"start_click", "toggle_on"} /\ ~apiSupported) =>
       status = "error" /\ MessageClass(errorMessage) = "unsupported"
  /\ lastEvent.name = "display_NotAllowedError" =>
       status = "error" /\ MessageClass(errorMessage) = "denied"
  /\ (AfterFailedStart /\ lastEvent.name # "display_NotAllowedError") =>
       status = "error" /\ MessageClass(errorMessage) = "other"

\* C18 witness: a start failed for a reason other than a refusal after an
\* earlier start had been refused, and the message is the one of the later
\* failure
C18_Witness ==
  /\ lastEvent.name = "display_other"
  /\ status = "error" /\ errorMessage = "other_capture"
  /\ \E i \in Slots : i # lastEvent.sid /\ sessions[i].phase = "failed"


\* this step issues a capture request (getDisplayMedia is called)
RequestIssued ==
  \E i \in Slots : sessions[i].phase = "unused" /\ sessions'[i].phase # "unused"

\* an earlier start has failed, or status is error
AfterFailure == status = "error" \/ \E i \in Slots : sessions[i].phase = "failed"

\* C19: after a failure (status error, or any failed start) a capture request
\* is issued only by the user invoking Start Recording or switching Instant
\* Replay on.
C19_NoAutomaticRequest ==
  [][(AfterFailure /\ RequestIssued) =>
       lastEvent'.name \in {"start_click", "toggle_on"}]_vars


\* Save Last Clip is invoked while the stream the component holds is live and
\* the recorder it holds is recording
SaveWhileBuffering ==
  /\ lastEvent'.name = "save"
  /\ StreamActive(sessions, streamRef)
  /\ RecorderRecording(State)

\* C20: saving a clip while buffering continues leaves the replay buffer as it
\* was (same chunks, same order) and status at replay_buffering; the exported
\* clip is a non-empty tail of the buffer, and the chunk delivered after the
\* save does not change the exported clip.
C20_SaveKeepsBuffer ==
  [][/\ SaveWhileBuffering =>
          /\ replayBufferChunksRef' = replayBufferChunksRef
          /\ status' = "replay_buffering"
          /\ Len(savedClip') >= 1
          /\ IsSuffix(savedClip', replayBufferChunksRef)
     /\ (lastEvent.name = "save" /\ lastEvent'.name \in {"data", "data_empty"}) =>
          savedClip' = savedClip]_vars

\* C20 witness: a clip was saved, then a chunk was pushed: the buffer has the
\* new chunk, the exported clip has not
C20_Witness ==
  /\ lastEvent.name = "data"
  /\ status = "replay_buffering"
  /\ Len(savedClip) >= 1
  /\ Len(replayBufferChunksRef) = Len(savedClip) + 1
  /\ SubSeq(replayBufferChunksRef, 1, Len(savedClip)) = savedClip


\* C21: when the stop callback of the replay session the component holds has
\* run and status is idle or error, the replay buffer is empty.
C21_BufferEmptyAfterReplay ==
  (AfterStop /\ sessions[lastEvent.sid].kind = "replay"
     /\ ~sessions[lastEvent.sid].onstopNull
     /\ mediaRecorderRef = lastEvent.sid /\ status \in {"idle", "error"}) =>
    replayBufferChunksRef = <<>>


\* the limit of the blueprint: 3 minutes
MaxSelectableSeconds == 180

\* C22: the recording duration and the replay window the user has selected
\* never exceed 3 minutes, and the replay window is 3 minutes until the user
\* selects another one.
C22_AtMostThreeMinutes ==
  /\ regularRecordingDurationSeconds <= MaxSelectableSeconds
  /\ instantReplayBufferDuration <= MaxSelectableSeconds
  /\ lastEvent.name = "init" => instantReplayBufferDuration = MaxSelectableSeconds


\* C23: in the current component a change of the replay window while
\* buffering leaves the recorder, the stream, the status and the buffer as
\* they are and issues no capture request, and every non-empty push after it
\* leaves the newest ceil(W/5) chunks for the window W selected then.
C23_TrimOnNextPush ==
  [][revision = "current" /\ status = "replay_buffering" =>
       /\ lastEvent'.name = "window_select" =>
            /\ replayBufferChunksRef' = replayBufferChunksRef
            /\ sessions' = sessions
            /\ streamRef' = streamRef /\ mediaRecorderRef' = mediaRecorderRef
            /\ status' = status
       /\ lastEvent'.name = "data" =>
            replayBufferChunksRef' =
              SliceLast(Append(replayBufferChunksRef, nextChunk),
                        CeilDiv(instantReplayBufferDuration,
                                REPLAY_CHUNK_DURATION_SECONDS))]_vars

\* C23 witness: chunks were pushed under a window of 180 s, the window was
\* lowered to 60 s, and a push after it has left the newest 12 chunks while
\* the recorder and the stream are the ones that were running before
C23_Witness ==
  /\ revision = "current" /\ status = "replay_buffering"
  /\ lastEvent.name = "data"
  /\ prevWindow = 180 /\ instantReplayBufferDuration = 60
  /\ ~windowStable /\ pushWindow = 60
  /\ Len(replayBufferChunksRef) = 12
  /\ replayBufferChunksRef[1] > 2
  /\ replayBufferChunksRef[12] = nextChunk - 1
  /\ sessions[1].rec = "recording" /\ sessions[1].displayLive


\* the sessions started by the restart timer
Restarted == {i \in Slots : sessions[i].restartOf # 0}

\* C24: in the restart revision a window change while Instant Replay is on and
\* status is replay_buffering leaves the recorder stopped, the stream released
\* and the buffer empty and issues no request itself; one restart is pending
\* after it, however often the window is changed, and the restart issues one
\* request; the restarted stream is never live together with the stream it
\* replaces; a restart that fails ends in status error with Instant Replay off.
C24_RestartOnWindowChange ==
  [][revision = "restart" =>
       /\ (lastEvent'.name = "window_select" /\ enableInstantReplay
             /\ status = "replay_buffering") =>
            /\ ~RecorderRecording(State)'
            /\ streamRef' = 0
            /\ streamRef # 0 => ~StreamActive(sessions', streamRef)
            /\ replayBufferChunksRef' = <<>>
            /\ restartTimer'.armed
            /\ ~RequestIssued
       /\ lastEvent'.name = "restart_timer" =>
            /\ restartTimer.armed /\ ~restartTimer'.armed
            /\ replayBufferChunksRef' = <<>>
            /\ Cardinality(PendingRequests') = Cardinality(PendingRequests) + 1
       /\ \A i \in Restarted' :
            ~(StreamActive(sessions', i) /\ StreamActive(sessions', sessions'[i].restartOf))
       /\ (lastEvent'.sid \in Restarted' /\ sessions'[lastEvent'.sid].phase = "failed"
             /\ lastEvent'.name \in {"display_NotAllowedError", "display_other",
                                     "display_granted", "mic_granted", "mic_failed"}) =>
            status' = "error" /\ ~enableInstantReplay']_vars

\* C24 witness: the window of the first session was changed and changed back
\* to the default before the restart fired (the select is disabled while the
\* restarted request is pending), and the one restarted session, the second
\* capture request, is buffering on its new stream
C24_Witness ==
  /\ revision = "restart"
  /\ lastEvent.name = "display_granted" /\ lastEvent.sid \in Restarted
  /\ lastEvent.sid = 2 /\ sessions[2].restartOf = 1
  /\ instantReplayBufferDuration = DefaultReplayWindow
  /\ status = "replay_buffering" /\ enableInstantReplay
  /\ StreamActive(sessions, lastEvent.sid)
  /\ Cardinality(Restarted) = 1


\* the chunks held in a chunk list
ChunksOf(chunks) == {chunks[k] : k \in 1..Len(chunks)}

\* C25: once a replay recorder that was told to stop has delivered its final
\* data event and fired stop, none of the chunks it produced is in the replay buffer, whether the
\* buffer was cleared before the late delivery or a later session has started.
C25_NoChunkOutlivesRecorder ==
  (lastEvent.name = "onstop" /\ sessions[lastEvent.sid].kind = "replay") =>
    ChunksOf(replayBufferChunksRef) \cap ChunksOf(lastEvent.got) = {}


\* C26: within one start attempt the microphone request is issued only by the
\* continuation of a granted screen-capture request, and only when the attempt
\* was started with includeMicAudio set: a session comes to wait for the
\* microphone only from waiting for the display, through a grant, with its
\* display stream acquired.  A denied or failed capture request, and a start
\* on an unsupported browser, never issue one.
C26_MicAfterDisplay ==
  [][\A sid \in Slots :
       /\ (sessions[sid].phase # "mic_pending" /\ sessions'[sid].phase = "mic_pending") =>
            /\ sessions[sid].phase = "display_pending"
            /\ lastEvent'.name = "display_granted" /\ lastEvent'.sid = sid
            /\ sessions[sid].mic /\ sessions'[sid].displayLive
            /\ ~sessions'[sid].micLive
       /\ (lastEvent'.sid = sid
             /\ lastEvent'.name \in {"display_NotAllowedError", "display_other"}) =>
            sessions'[sid].phase = "failed" /\ ~sessions'[sid].micLive
       /\ ~apiSupported =>
            sessions'[sid].phase \notin {"display_pending", "mic_pending"}]_vars

\* C26 witness: the capture prompt of an attempt started with the microphone
\* switch on was just granted and the attempt now waits for the microphone
C26_Witness ==
  /\ lastEvent.name = "display_granted"
  /\ sessions[lastEvent.sid].phase = "mic_pending"
  /\ sessions[lastEvent.sid].mic /\ sessions[lastEvent.sid].displayLive


\* C27: no microphone track of a session stays live after the session's stream
\* has been cleaned up: once the display tracks and the microphone clones of a
\* session's recorded stream are stopped and the stream is no longer
\* referenced, the tracks of the stream the microphone request returned are
\* stopped as well.
C27_MicTracksStopped ==
  \A sid \in Slots :
    (sessions[sid].phase \notin {"unused", "display_pending", "mic_pending"}
       /\ streamRef # sid
       /\ ~sessions[sid].displayLive /\ ~sessions[sid].micLive) =>
      ~sessions[sid].micOrigLive


\* the last step was the continuation of a granted capture request in which
\* the MediaRecorder constructor threw for the preferred and the default codec
AfterEncoderFailure ==
  /\ lastEvent.name \in {"display_granted", "mic_granted", "mic_failed"}
  /\ sessions[lastEvent.sid].phase = "failed"

\* C28: when screen capture is granted and the encoder cannot be created with
\* either codec, the start attempt ends with status error, every track of the
\* stream it acquired is stopped, the stream reference is null and no
\* recording recorder is referenced.
C28_EncoderFailureReleases ==
  AfterEncoderFailure =>
    /\ status = "error" /\ errorMessage = "other_encoder"
    /\ ~StreamActive(sessions, lastEvent.sid)
    /\ streamRef = 0
    /\ sessions[lastEvent.sid].rec = "none"
    /\ (mediaRecorderRef # 0 => sessions[mediaRecorderRef].rec # "recording")


\* the last step created the encoder with the default codec after the
\* constructor had thrown for vp9
AfterFallback == lastEvent.codec = "default"

\* C29: when creating the encoder with the preferred codec fails and creating
\* it with the default codec succeeds, the start attempt succeeds: the session
\* is attached with its recorder recording and referenced, the status is an
\* active one and is not error.
C29_FallbackCodecStarts ==
  AfterFallback =>
    LET sid == lastEvent.sid
    IN /\ sessions[sid].phase = "attached" /\ sessions[sid].rec = "recording"
       /\ mediaRecorderRef = sid /\ streamRef = sid
       /\ status # "error"
       /\ status = IF sessions[sid].kind = "replay" THEN "replay_buffering"
                   ELSE IF sessions[sid].dur > 0 THEN "countdown"
                   ELSE "recording"

\* C29 witness: a regular and a replay start on the fallback codec
C29_Witness ==
  /\ AfterFallback /\ lastEvent.name \in {"display_granted", "mic_failed"}
  /\ status \in {"recording", "replay_buffering"}
  /\ sessions[lastEvent.sid].rec = "recording"


\* the countdown specification: up to MaxOverlap capture requests with the
\* duration select, the countdown interval and the stop timeout, without the
\* microphone and without chunks delivered while recording
NextCountdown ==
  \/ \E d \in REGULAR_RECORDING_DURATIONS : d <= MaxDurationChoice /\ SetRegularDuration(d)
  \/ SessionsUsed < MaxOverlap /\ StartRecordingClick
  \/ SessionsUsed < MaxOverlap /\ ReplayToggleOn
  \/ ReplayToggleOff
  \/ StopRecordingClick
  \/ \E sid \in Slots, o \in Outcomes, c \in Codecs : GetDisplayMediaSettles(sid, o, c)
  \/ \E sid \in Slots, z \in Sizes :
        (z > 0 => nextChunk <= MaxChunks) /\ RecorderStopTask(sid, z)
  \/ \E sid \in Slots : TrackEnded(sid)
  \/ \E sid \in Slots : sessions[sid].ticked < MaxTicks /\ CountdownTick(sid)
  \/ \E sid \in Slots : StopTimeoutFires(sid)

SpecCountdown == Init /\ [][NextCountdown]_vars

\* the sessions whose countdown interval / stop timeout is armed
IntervalsArmed(ss) == {i \in Slots : ss[i].intervalArmed}

TimeoutsArmed(ss) == {i \in Slots : ss[i].timeoutArmed}

\* C30: a recording of finite duration D starts its countdown at D; each tick
\* of its interval finds a countdown and lowers it by exactly 1, or leaves it
\* at 0; at most one countdown interval and at most one stop timeout are
\* armed at any time; and when the stop callback of the recording has run no
\* interval and no timeout is armed and the countdown is null.
C30_CountdownMonotone ==
  [][/\ \A sid \in Slots :
          (sessions[sid].phase # "attached" /\ sessions'[sid].phase = "attached"
             /\ sessions'[sid].kind = "regular" /\ sessions[sid].dur > 0) =>
            countdown' = sessions[sid].dur /\ status' = "countdown"
     /\ lastEvent'.name = "tick" =>
          /\ countdown # NullCountdown
          /\ countdown' = (IF countdown > 0 THEN countdown - 1 ELSE 0)
          /\ countdown' >= 0
     /\ Cardinality(IntervalsArmed(sessions')) <= 1
     /\ Cardinality(TimeoutsArmed(sessions')) <= 1
     /\ (lastEvent'.name \in {"onstop", "onstop_ended", "onerror"}
           /\ sessions'[lastEvent'.sid].kind = "regular") =>
          /\ IntervalsArmed(sessions') = {} /\ TimeoutsArmed(sessions') = {}
          /\ countdown' = NullCountdown]_vars


\* C31: in the current component a saved replay clip is exactly the last
\* min(L, max(1, ceil(W / 5))) chunks of the buffer in buffer order, L being
\* the buffer length and W the window when Save is clicked; a save with an
\* empty buffer exports nothing and leaves status and buffer unchanged.
C31_ClipIsLastChunks ==
  [][/\ (revision = "current" /\ lastEvent'.name = "save") =>
          LET L == Len(replayBufferChunksRef)
              n == Min(L, Max(1, CeilDiv(instantReplayBufferDuration,
                                         REPLAY_CHUNK_DURATION_SECONDS)))
          IN /\ L > 0
             /\ savedClip' = [k \in 1..n |-> replayBufferChunksRef[L - n + k]]
     /\ (revision = "current" /\ lastEvent'.name = "save_empty") =>
          /\ replayBufferChunksRef = <<>> /\ replayBufferChunksRef' = <<>>
          /\ savedClip' = <<>>
          /\ status' = status]_vars

\* C31 witness: the window was lowered to one minute over a buffer of more
\* than twelve chunks, and the save exported the last twelve
C31_Witness ==
  /\ revision = "current" /\ lastEvent.name = "save"
  /\ instantReplayBufferDuration = 60
  /\ Len(replayBufferChunksRef) > 12 /\ Len(savedClip) = 12
  /\ savedClip = SubSeq(replayBufferChunksRef, Len(replayBufferChunksRef) - 11,
                        Len(replayBufferChunksRef))


\* C32: the handler of the video track's ended event acts on the status that
\* is current when the event fires: the step that handles the event leaves
\* the state handleStreamStopFromBrowser produces from the current status
\* (the regular branch under recording or countdown, the replay branch under
\* replay_buffering), not the one it produces from the status of the render
\* that started the session.
C32_HandlersReadCurrentStatus ==
  [][lastEvent'.name = "ended" =>
       LET sid == lastEvent'.sid
           R == handleStreamStopFromBrowser(
                  [State EXCEPT !.sessions[sid].displayLive = FALSE], status)
       IN /\ status' = R.status
          /\ enableInstantReplay' = R.enableInstantReplay
          /\ countdown' = R.countdown
          /\ sessions' = R.sessions
          /\ streamRef' = R.streamRef
          /\ replayBufferChunksRef' = R.replayBufferChunksRef]_vars


\* the component is unmounted: React runs the cleanup of the mount effect
Unmount == Commit(EffectCleanup(State), Ev("unmount", 0))

Mounted == lastEvent.name # "unmount"

\* the teardown specification: up to MaxSessions capture requests of both
\* modes with timers and chunk deliveries, and the unmount of the component,
\* after which the model follows the component no further
NextTeardown ==
  \/ Mounted /\ \E d \in REGULAR_RECORDING_DURATIONS :
                   d <= MaxDurationChoice /\ SetRegularDuration(d)
  \/ Mounted /\ SessionsUsed < MaxSessions /\ StartRecordingClick
  \/ Mounted /\ SessionsUsed < MaxSessions /\ ReplayToggleOn
  \/ Mounted /\ ReplayToggleOff
  \/ Mounted /\ StopRecordingClick
  \/ Mounted /\ \E sid \in Slots, o \in Outcomes, c \in Codecs :
                   GetDisplayMediaSettles(sid, o, c)
  \/ Mounted /\ \E sid \in Slots, z \in Sizes :
                   (z > 0 => nextChunk <= MaxChunks) /\ DataAvailable(sid, z)
  \/ Mounted /\ \E sid \in Slots, z \in Sizes :
                   (z > 0 => nextChunk <= MaxChunks) /\ RecorderStopTask(sid, z)
  \/ Mounted /\ \E sid \in Slots : TrackEnded(sid)
  \/ Mounted /\ \E sid \in Slots : sessions[sid].ticked < MaxTicks /\ CountdownTick(sid)
  \/ Mounted /\ \E sid \in Slots : StopTimeoutFires(sid)
  \/ Mounted /\ Unmount

SpecTeardown == Init /\ [][NextTeardown]_vars

\* C33: on teardown, from any state, the cleanup stops every track of the
\* stream the component holds and drops the reference, stops the referenced
\* recorder if it is recording and drops its reference, clears the interval
\* and the timeout the component holds and resets the countdown, and empties
\* the replay buffer.
C33_TeardownReleases ==
  [][lastEvent'.name = "unmount" =>
       /\ streamRef' = 0
       /\ streamRef # 0 => ~StreamActive(sessions', streamRef)
       /\ mediaRecorderRef' = 0
       /\ mediaRecorderRef # 0 =>
            /\ sessions'[mediaRecorderRef].rec # "recording"
            /\ sessions[mediaRecorderRef].rec = "recording" =>
                 sessions'[mediaRecorderRef].stopQueued
       /\ countdownTimerRef' = 0 /\ recordingStopTimeoutRef' = 0
       /\ countdownTimerRef # 0 => ~sessions'[countdownTimerRef].intervalArmed
       /\ recordingStopTimeoutRef # 0 => ~sessions'[recordingStopTimeoutRef].timeoutArmed
       /\ countdown' = NullCountdown
       /\ replayBufferChunksRef' = <<>>]_vars

\* C33 witness: the component was unmounted during a countdown that had
\* ticked: the recorder was stopped by the cleanup and its timers are cleared
C33_Witness ==
  /\ lastEvent.name = "unmount" /\ status = "countdown"
  /\ \E i \in Slots :
       /\ sessions[i].phase = "attached" /\ sessions[i].dur > 0
       /\ sessions[i].stopQueued /\ ~sessions[i].expired
       /\ ~sessions[i].intervalArmed /\ ~sessions[i].timeoutArmed
       /\ ~sessions[i].displayLive
  /\ streamRef = 0 /\ mediaRecorderRef = 0


\* C34: in every reachable state an active status (recording, countdown,
\* replay_buffering) means that the component holds a stream with a live
\* track and that the recorder it references is recording.
C34_ActiveStatusHasSession ==
  status \in {"recording", "countdown", "replay_buffering"} =>
    /\ streamRef # 0 /\ StreamActive(sessions, streamRef)
    /\ mediaRecorderRef # 0 /\ sessions[mediaRecorderRef].rec = "recording"


\* the recorders of the given mode that are recording
LiveRecorders(ss, kind) ==
  {i \in Slots : ss[i].kind = kind /\ ss[i].phase = "attached" /\ ss[i].rec = "recording"}

\* C35: regular recording and Instant Replay exclude each other.  A Start
\* click under enableInstantReplay issues no capture request and leaves
\* status, stream, recorder and both chunk sequences unchanged; switching
\* Instant Replay on under status recording or countdown issues no capture
\* request, leaves enableInstantReplay false and the recording untouched; and
\* in no state a regular recorder and a replay recorder are both recording.
C35_ModesExclusive ==
  [][/\ (lastEvent'.name = "start_click" /\ enableInstantReplay) =>
          /\ sessions' = sessions /\ status' = status
          /\ streamRef' = streamRef /\ mediaRecorderRef' = mediaRecorderRef
          /\ recordedChunksRef' = recordedChunksRef
          /\ replayBufferChunksRef' = replayBufferChunksRef
     /\ (lastEvent'.name = "toggle_on" /\ status \in {"recording", "countdown"}) =>
          /\ sessions' = sessions /\ status' = status
          /\ ~enableInstantReplay'
          /\ streamRef' = streamRef /\ mediaRecorderRef' = mediaRecorderRef
          /\ recordedChunksRef' = recordedChunksRef
     /\ (LiveRecorders(sessions', "regular") = {}
           \/ LiveRecorders(sessions', "replay") = {})]_vars


\* C36: a data event whose chunk has size 0 changes neither chunk sequence:
\* the regular handler leaves recordedChunksRef as it is, and the replay
\* handler neither appends to the buffer nor trims it, even when the buffer is
\* longer than the window allows because the window was lowered since the
\* last push.
C36_EmptyChunkIgnored ==
  [][lastEvent'.name = "data_empty" =>
       /\ replayBufferChunksRef' = replayBufferChunksRef
       /\ recordedChunksRef' = recordedChunksRef
       /\ nextChunk' = nextChunk
       /\ sessions'[lastEvent'.sid].got = sessions[lastEvent'.sid].got
       /\ RegularOnData(State, lastEvent'.sid, 0).recordedChunksRef = recordedChunksRef]_vars

\* C36 witness: an empty chunk arrived after the window had been lowered
\* below the buffer's length, and the buffer is still that long
C36_Witness ==
  /\ lastEvent.name = "data_empty"
  /\ Len(replayBufferChunksRef) > MaxChunksFor(instantReplayBufferDuration)


\* the recorders a step has stopped
StoppedBy(ss, tt) == {i \in Slots : ss[i].rec = "recording" /\ tt[i].rec = "inactive"}

\* C37: the stop timeout armed by a finite-duration recording stops no
\* recorder but the one of the session that armed it; in particular it never
\* stops the recorder of a later regular or replay session.
C37_TimeoutStopsOwnRecorder ==
  [][lastEvent'.name = "timeout" =>
       StoppedBy(sessions, sessions') \subseteq {lastEvent'.sid}]_vars


\* C38: status replay_saving is transient.  No handler returns with status
\* replay_saving, so no later event observes it; and a save of the current
\* component that exported a clip leaves status replay_buffering when the
\* held stream is still active, and otherwise status idle with
\* enableInstantReplay false and the replay buffer cleared.
C38_SavingIsTransient ==
  [][/\ status' # "replay_saving"
     /\ (revision = "current" /\ lastEvent'.name = "save") =>
          IF StreamActive(sessions, streamRef)
          THEN status' = "replay_buffering"
          ELSE /\ status' = "idle" /\ ~enableInstantReplay'
               /\ replayBufferChunksRef' = <<>>]_vars

====
